---- MODULE Spec2Model ----
(***************************************************************************)
(* A model of two programs of the MAAS packaging tree:                     *)
(*                                                                         *)
(*   - src/src/machine-resources.go: main() calls resources.GetResources,  *)
(*     serializes the result with json.MarshalIndent(v, "", "\t") and      *)
(*     prints it; either error is printed as "error: <msg>\n" and ends the *)
(*     process with os.Exit(1).                                            *)
(*   - src/unnamed/part_000 lines 1-120: the snap post-refresh hook, a     *)
(*     `bash -e` script that migrates the database directory layout and    *)
(*     upgrades PostgreSQL 9.5 to 10 before starting the services.         *)
(*                                                                         *)
(* Text (standard output, the marshalled data, error messages) is a        *)
(* sequence of one-character strings.                                      *)
(***************************************************************************)
EXTENDS Integers, Sequences, FiniteSets, TLC

VARIABLES
    \* ---- machine-resources.go ----
    pc,          \* the line main() is about to execute, or "done"
    resources,   \* main's `resources` (value returned by GetResources)
    err,         \* main's `err`
    data,        \* main's `data`
    stdout,      \* everything written to standard output
    stderr,      \* everything written to standard error
    exited,      \* the process has ended
    exitStatus,  \* its exit status (meaningful once exited)
    calls,       \* history: the library calls and prints made, in order
    enumerated,  \* history: what GetResources returned
    \* ---- post-refresh hook ----
    hpc,         \* the hook line about to execute, "idle" between runs
    fs,          \* the filesystem under $SNAP_COMMON and $SNAP_DATA
    PG_VERSION,  \* the shell variable PG_VERSION
    hookStatus,  \* exit status of the last hook run that ended
    hist         \* history of the hook runs

rvars == <<pc, resources, err, data, stdout, stderr, exited, exitStatus, calls, enumerated>>
hvars == <<hpc, fs, PG_VERSION, hookStatus, hist>>
vars == <<rvars, hvars>>

(***************************************************************************)
(* Bounds                                                                  *)
(***************************************************************************)
\* longest string value inside a snapshot
MaxStrLen == 2
\* longest array inside a snapshot
MaxLen == 2
\* hook runs in one behaviour
MaxRuns == 3

(***************************************************************************)
(* JSON values: the snapshot GetResources returns is an opaque value handed *)
(* to encoding/json. Every value is a record of the same shape.            *)
(*   t: "null" | "true" | "false" | "num" | "str" | "arr" | "obj" | "nan"   *)
(* "nan" is a float64 NaN, a value encoding/json cannot represent.         *)
(***************************************************************************)
JV(t, n, s, keys, kids) == [t |-> t, n |-> n, s |-> s, keys |-> keys, kids |-> kids]
JNull == JV("null", 0, <<>>, <<>>, <<>>)
JTrue == JV("true", 0, <<>>, <<>>, <<>>)
JFalse == JV("false", 0, <<>>, <<>>, <<>>)
JNaN == JV("nan", 0, <<>>, <<>>, <<>>)
JNum(n) == JV("num", n, <<>>, <<>>, <<>>)
JStr(s) == JV("str", 0, s, <<>>, <<>>)
JArr(kids) == JV("arr", 0, <<>>, <<>>, kids)
JObj(keys, kids) == JV("obj", 0, <<>>, keys, kids)

(***************************************************************************)
(* encoding/json as machine-resources.go uses it (line 21):                *)
(* MarshalIndent = Marshal (compact encoding) followed by Indent.          *)
(***************************************************************************)
DigitChars == <<"0", "1", "2", "3", "4", "5", "6", "7", "8", "9">>

RECURSIVE Itoa(_)
\* strconv.AppendUint(b, n, 10): the decimal digits of n
Itoa(n) ==
    IF n < 10 THEN <<DigitChars[n + 1]>>
    ELSE Itoa(n \div 10) \o <<DigitChars[(n % 10) + 1]>>

\* mutant: a backslash is written as it is, not escaped
EscapeChar_RawBackslash(c) ==
    CASE c = "\"" -> <<"\\", "\"">>
      [] c = "<"  -> <<"\\", "u", "0", "0", "3", "c">>
      [] OTHER    -> <<c>>

\* encodeState.string with escapeHTML: the bytes written for one character
EscapeChar(c) ==
    CASE c = "\"" -> <<"\\", "\"">>
      [] c = "\\" -> <<"\\", "\\">>
      [] c = "\n" -> <<"\\", "n">>
      [] c = "\t" -> <<"\\", "t">>
      [] c = "<"  -> <<"\\", "u", "0", "0", "3", "c">>
      [] c = ">"  -> <<"\\", "u", "0", "0", "3", "e">>
      [] c = "&"  -> <<"\\", "u", "0", "0", "2", "6">>
      [] OTHER    -> <<c>>

RECURSIVE EscapeFrom(_, _)
EscapeFrom(s, i) ==
    IF i > Len(s) THEN <<>> ELSE EscapeChar(s[i]) \o EscapeFrom(s, i + 1)

\* encodeState.string: a quoted, escaped JSON string
EncodeString(s) == <<"\"">> \o EscapeFrom(s, 1) \o <<"\"">>

\* UnsupportedValueError.Error() for a NaN float
UnsupportedValueMsg ==
    <<"j", "s", "o", "n", ":", " ", "u", "n", "s", "u", "p", "p", "o", "r", "t", "e", "d",
      " ", "v", "a", "l", "u", "e", ":", " ", "N", "a", "N">>

RECURSIVE Encode(_)
RECURSIVE EncodeElems(_, _)
RECURSIVE EncodeFields(_, _, _)
\* arrayEncoder: the elements from index i on, separated by commas
EncodeElems(kids, i) ==
    IF i > Len(kids) THEN [ok |-> TRUE, out |-> <<>>]
    ELSE LET e == Encode(kids[i])
             r == EncodeElems(kids, i + 1)
         IN IF ~e.ok \/ ~r.ok THEN [ok |-> FALSE, out |-> <<>>]
            ELSE [ok |-> TRUE,
                  out |-> (IF i > 1 THEN <<",">> ELSE <<>>) \o e.out \o r.out]

\* structEncoder: "key":value for the fields from index i on, in declaration order
EncodeFields(keys, kids, i) ==
    IF i > Len(kids) THEN [ok |-> TRUE, out |-> <<>>]
    ELSE LET e == Encode(kids[i])
             r == EncodeFields(keys, kids, i + 1)
         IN IF ~e.ok \/ ~r.ok THEN [ok |-> FALSE, out |-> <<>>]
            ELSE [ok |-> TRUE,
                  out |-> (IF i > 1 THEN <<",">> ELSE <<>>)
                          \o EncodeString(keys[i]) \o <<":">> \o e.out \o r.out]

\* encodeState.reflectValue: the compact encoding of a value, or failure
Encode(v) ==
    CASE v.t = "null"  -> [ok |-> TRUE, out |-> <<"n", "u", "l", "l">>]
      [] v.t = "true"  -> [ok |-> TRUE, out |-> <<"t", "r", "u", "e">>]
      [] v.t = "false" -> [ok |-> TRUE, out |-> <<"f", "a", "l", "s", "e">>]
      [] v.t = "num"   -> [ok |-> TRUE, out |-> Itoa(v.n)]
      [] v.t = "str"   -> [ok |-> TRUE, out |-> EncodeString(v.s)]
      [] v.t = "arr"   -> LET r == EncodeElems(v.kids, 1)
                          IN [ok |-> r.ok,
                              out |-> IF r.ok THEN <<"[">> \o r.out \o <<"]">> ELSE <<>>]
      [] v.t = "obj"   -> LET r == EncodeFields(v.keys, v.kids, 1)
                          IN [ok |-> r.ok,
                              out |-> IF r.ok THEN <<"{">> \o r.out \o <<"}">> ELSE <<>>]
      [] OTHER         -> [ok |-> FALSE, out |-> <<>>]

RECURSIVE Tabs(_)
Tabs(n) == IF n <= 0 THEN <<>> ELSE <<"\t">> \o Tabs(n - 1)

RECURSIVE Spaces(_)
Spaces(n) == IF n <= 0 THEN <<>> ELSE <<" ">> \o Spaces(n - 1)

\* mutant: the indent string is a space, not a tab
Newline_Spaces(depth) == <<"\n">> \o Spaces(depth)

\* json.newline(dst, "", "\t", depth)
Newline(depth) == <<"\n">> \o Tabs(depth)

RECURSIVE IndentFrom(_, _, _, _, _, _)
\* json.Indent(dst, src, "", "\t"): the loop over src from index i, with the
\* scanner reduced to "inside a string literal" (inStr) and "after a backslash" (esc)
IndentFrom(src, i, depth, needIndent, inStr, esc) ==
    IF i > Len(src) THEN <<>>
    ELSE LET c == src[i]
         IN IF inStr
            THEN \* scanContinue: bytes of a literal are copied unmodified
                 <<c>> \o IndentFrom(src, i + 1, depth, needIndent,
                                     esc \/ c # "\"", ~esc /\ c = "\\")
            ELSE LET closing == c \in {"}", "]"}
                     bump == needIndent /\ ~closing
                     d == IF bump THEN depth + 1 ELSE depth
                     pre == IF bump THEN Newline(d) ELSE <<>>
                 IN CASE c \in {"{", "["} ->
                           pre \o <<c>> \o IndentFrom(src, i + 1, d, TRUE, FALSE, FALSE)
                      [] c = "," ->
                           pre \o <<c>> \o Newline(d)
                               \o IndentFrom(src, i + 1, d, FALSE, FALSE, FALSE)
                      [] c = ":" ->
                           pre \o <<c, " ">> \o IndentFrom(src, i + 1, d, FALSE, FALSE, FALSE)
                      [] closing ->
                           IF needIndent
                           THEN <<c>> \o IndentFrom(src, i + 1, depth, FALSE, FALSE, FALSE)
                           ELSE Newline(depth - 1) \o <<c>>
                                \o IndentFrom(src, i + 1, depth - 1, FALSE, FALSE, FALSE)
                      [] OTHER ->
                           pre \o <<c>> \o IndentFrom(src, i + 1, d, FALSE, c = "\"", FALSE)

\* json.Indent(&buf, b, "", "\t")
Indent(src) == IndentFrom(src, 1, 0, FALSE, FALSE, FALSE)

\* json.MarshalIndent(v, "", "\t"): (data, nil) or (nil, err)
MarshalIndent(v) ==
    LET b == Encode(v)
    IN IF b.ok THEN [data |-> Indent(b.out), isErr |-> FALSE, msg |-> <<>>]
       ELSE [data |-> <<>>, isErr |-> TRUE, msg |-> UnsupportedValueMsg]

(***************************************************************************)
(* The values resources.GetResources may hand back.                        *)
(***************************************************************************)
StrChars == {"a", "\"", "\\", "{", "<"}

RECURSIVE StringsUpTo(_)
StringsUpTo(n) ==
    IF n = 0 THEN {<<>>}
    ELSE LET shorter == StringsUpTo(n - 1)
         IN shorter \cup {Append(s, c) : s \in {x \in shorter : Len(x) = n - 1}, c \in StrChars}

Scalars ==
    {JNull, JTrue, JFalse, JNum(0), JNum(7), JNum(120), JNaN}
        \cup {JStr(s) : s \in StringsUpTo(MaxStrLen)}

KeyCpu == <<"c", "p", "u">>
KeyMemory == <<"m", "e", "m", "o", "r", "y">>
KeyTotal == <<"t", "o", "t", "a", "l">>
KeyUsed == <<"u", "s", "e", "d">>

Elems ==
    {JNum(0), JNum(120), JStr(<<"a">>), JStr(<<"\"", ",">>), JNaN,
     JArr(<<>>), JObj(<<>>, <<>>), JObj(<<KeyTotal>>, <<JNum(7)>>)}

RECURSIVE ArraysUpTo(_)
ArraysUpTo(n) ==
    IF n = 0 THEN {<<>>}
    ELSE LET shorter == ArraysUpTo(n - 1)
         IN shorter \cup {Append(a, e) : a \in {x \in shorter : Len(x) = n - 1}, e \in Elems}

MemoryValues == {JNull, JObj(<<KeyUsed, KeyTotal>>, <<JNum(0), JNum(120)>>)}

\* api.Resources{CPU, Memory}, its fields opaque to main()
Snapshots ==
    {JObj(<<KeyCpu, KeyMemory>>, <<c, m>>) :
        c \in Scalars \cup {JArr(a) : a \in ArraysUpTo(MaxLen)}, m \in MemoryValues}
        \cup {JNull}

\* messages of the error GetResources may return
ErrMsgs == {<<>>, <<"E">>, <<"n", "o", " ", "c", "p", "u">>, <<"a", "\n", "b">>}

NilErr == [isNil |-> TRUE, msg |-> <<>>]
ErrorOf(m) == [isNil |-> FALSE, msg |-> m]

\* json.MarshalIndent(v, "", "\t") for each value main() can pass to it
Marshalled == [v \in Snapshots |-> MarshalIndent(v)]

(***************************************************************************)
(* machine-resources.go, main()                                            *)
(***************************************************************************)
\* mutant: the format lacks the "error: " prefix
FormatError_NoPrefix(e) == e.msg \o <<"\n">>

\* fmt.Sprintf("error: %v\n", e)
FormatError(e) == <<"e", "r", "r", "o", "r", ":", " ">> \o e.msg \o <<"\n">>

\* fmt.Sprintf("%s\n", d)
FormatData(d) == d \o <<"\n">>

\* line 15: resources, err := resources.GetResources()  and the test of line 16
CallGetResources ==
    /\ pc = "l15"
    /\ \E isErr \in BOOLEAN, v \in Snapshots, m \in ErrMsgs :
          /\ isErr => v = JNull
          /\ ~isErr => m = <<>>
          /\ resources' = v
          /\ err' = IF isErr THEN ErrorOf(m) ELSE NilErr
          /\ enumerated' = [called |-> TRUE, isErr |-> isErr, val |-> v, msg |-> m]
          /\ pc' = IF isErr THEN "l17" ELSE "l21"
    /\ calls' = Append(calls, "GetResources")
    /\ UNCHANGED <<data, stdout, stderr, exited, exitStatus, hvars>>

\* mutant: the diagnostic goes to os.Stderr
PrintfEnumErr_Stderr ==
    /\ pc = "l17"
    /\ stderr' = stderr \o <<"e", "r", "r", "o", "r", ":", " ">> \o err.msg \o <<"\n">>
    /\ calls' = Append(calls, "PrintError")
    /\ pc' = "l18"
    /\ UNCHANGED <<resources, err, data, stdout, exited, exitStatus, enumerated, hvars>>

\* line 17: fmt.Printf("error: %v\n", err)
PrintfEnumErr ==
    /\ pc = "l17"
    /\ stdout' = stdout \o FormatError(err)
    /\ calls' = Append(calls, "PrintError")
    /\ pc' = "l18"
    /\ UNCHANGED <<resources, err, data, stderr, exited, exitStatus, enumerated, hvars>>

\* mutant: no os.Exit(1) after the diagnostic, main() goes on to line 21
ExitEnumErr_FallThrough ==
    /\ pc = "l18"
    /\ pc' = "l21"
    /\ UNCHANGED <<resources, err, data, stdout, stderr, exited, exitStatus, calls,
                   enumerated, hvars>>

\* line 18: os.Exit(1)
ExitEnumErr ==
    /\ pc = "l18"
    /\ exited' = TRUE
    /\ exitStatus' = 1
    /\ calls' = Append(calls, "Exit")
    /\ pc' = "done"
    /\ UNCHANGED <<resources, err, data, stdout, stderr, enumerated, hvars>>

\* line 21: data, err := json.MarshalIndent(resources, "", "\t")  and the test of line 22
CallMarshalIndent ==
    /\ pc = "l21"
    /\ LET r == Marshalled[resources]
       IN /\ data' = r.data
          /\ err' = IF r.isErr THEN ErrorOf(r.msg) ELSE NilErr
          /\ pc' = IF r.isErr THEN "l23" ELSE "l27"
    /\ calls' = Append(calls, "MarshalIndent")
    /\ UNCHANGED <<resources, stdout, stderr, exited, exitStatus, enumerated, hvars>>

\* mutant: data is printed before err is looked at
PrintfMarshalErr_DataFirst ==
    /\ pc = "l23"
    /\ stdout' = stdout \o data \o <<"\n">>
                        \o <<"e", "r", "r", "o", "r", ":", " ">> \o err.msg \o <<"\n">>
    /\ calls' = Append(calls, "PrintError")
    /\ pc' = "l24"
    /\ UNCHANGED <<resources, err, data, stderr, exited, exitStatus, enumerated, hvars>>

\* line 23: fmt.Printf("error: %v\n", err)
PrintfMarshalErr ==
    /\ pc = "l23"
    /\ stdout' = stdout \o FormatError(err)
    /\ calls' = Append(calls, "PrintError")
    /\ pc' = "l24"
    /\ UNCHANGED <<resources, err, data, stderr, exited, exitStatus, enumerated, hvars>>

\* line 24: os.Exit(1)
ExitMarshalErr ==
    /\ pc = "l24"
    /\ exited' = TRUE
    /\ exitStatus' = 1
    /\ calls' = Append(calls, "Exit")
    /\ pc' = "done"
    /\ UNCHANGED <<resources, err, data, stdout, stderr, enumerated, hvars>>

\* line 27: fmt.Printf("%s\n", data)
PrintfData ==
    /\ pc = "l27"
    /\ stdout' = stdout \o FormatData(data)
    /\ calls' = Append(calls, "PrintData")
    /\ pc' = "l28"
    /\ UNCHANGED <<resources, err, data, stderr, exited, exitStatus, enumerated, hvars>>

\* line 28: main returns, the process ends with status 0
ReturnMain ==
    /\ pc = "l28"
    /\ exited' = TRUE
    /\ exitStatus' = 0
    /\ calls' = Append(calls, "Return")
    /\ pc' = "done"
    /\ UNCHANGED <<resources, err, data, stdout, stderr, enumerated, hvars>>

ReporterInit ==
    /\ pc = "l15"
    /\ resources = JNull
    /\ err = NilErr
    /\ data = <<>>
    /\ stdout = <<>>
    /\ stderr = <<>>
    /\ exited = FALSE
    /\ exitStatus = 0
    /\ calls = <<>>
    /\ enumerated = [called |-> FALSE, isErr |-> FALSE, val |-> JNull, msg |-> <<>>]

ReporterNext ==
    \/ CallGetResources
    \/ PrintfEnumErr
    \/ ExitEnumErr
    \/ CallMarshalIndent
    \/ PrintfMarshalErr
    \/ ExitMarshalErr
    \/ PrintfData
    \/ ReturnMain

(***************************************************************************)
(* The post-refresh hook (src/unnamed/part_000, lines 1-120).              *)
(*                                                                         *)
(* A directory that may hold a database is [exists, ver, content]: ver is  *)
(* the text of its PG_VERSION file ("" when there is no such file) and     *)
(* content names the data in it.                                           *)
(***************************************************************************)
NoDir == [exists |-> FALSE, ver |-> "", content |-> ""]
Dir(ver, content) == [exists |-> TRUE, ver |-> ver, content |-> content]
Versions == {"9.5", "10", "9.6", ""}

NoFile == [exists |-> FALSE, line |-> <<>>]
File(line) == [exists |-> TRUE, line |-> line]

\* the bin/postgres command line of supervisord.conf: its -D and -k paths
OldSupervisord == <<"/db", "/db">>
NewSupervisord == <<"/postgres/data", "/postgres/sockets">>
\* the database_host line of regiond.conf
OldRegiond == <<"common/db">>
NewRegiond == <<"common/postgres/sockets">>

RECURSIVE SubstFirst(_, _, _)
\* sed s|from|to| on one line: the first match only
SubstFirst(line, from, to) ==
    IF line = <<>> THEN <<>>
    ELSE IF Head(line) = from THEN <<to>> \o Tail(line)
    ELSE <<Head(line)>> \o SubstFirst(Tail(line), from, to)

\* line 52: sed -i '/bin\/postgres/ { s|/db|/postgres/data|; s|/db|/postgres/sockets|}'
SedSupervisord(line) ==
    SubstFirst(SubstFirst(line, "/db", "/postgres/data"), "/db", "/postgres/sockets")

\* line 55: sed -i 's|common/db|common/postgres/sockets|'
SedRegiond(line) == SubstFirst(line, "common/db", "common/postgres/sockets")

\* exit statuses of a command that fails, and of the migrate command
FailStatuses == {1, 2}
MigrateStatuses == {0, 1}

\* the lines at which a command runs that `bash -e` aborts on when it fails
CommandPcs ==
    {"l6", "l48", "l49", "l52", "l55", "l64", "l67", "l77", "l84", "l87", "l92", "l93",
     "l95", "l99", "l107", "l109", "l117"}

HookInitFs ==
    {[db |-> d, postgres |-> p, sockets |-> p, data |-> pd, data95 |-> NoDir,
      data10 |-> NoDir, pgUpgrade |-> FALSE, supervisord |-> sc, regiond |-> rc] :
        d \in {NoDir} \cup {Dir(v, "A") : v \in Versions},
        p \in BOOLEAN,
        pd \in {NoDir} \cup {Dir(v, "B") : v \in Versions},
        sc \in {NoFile, File(OldSupervisord), File(NewSupervisord)},
        rc \in {NoFile, File(OldRegiond), File(NewRegiond)}}

\* a real database directory: it has a PG_VERSION file
IsDatabase(d) == d.exists /\ d.ver # ""

HookInit ==
    /\ hpc = "idle"
    /\ fs \in {f \in HookInitFs :
                 /\ f.data.exists => f.postgres
                 /\ f.postgres => f.supervisord # File(OldSupervisord) /\ f.regiond # File(OldRegiond)
                 /\ ~f.postgres => f.supervisord # File(NewSupervisord) /\ f.regiond # File(NewRegiond)}
    /\ PG_VERSION = ""
    /\ hookStatus = 0
    /\ hist = [runs |-> 0, start |-> fs, prevOk |-> FALSE, cmdFailed |-> FALSE,
               anyFailed |-> FALSE, started |-> FALSE, migrated |-> FALSE,
               nMove |-> 0, nSedSup |-> 0, nSedReg |-> 0, nUpgrade |-> 0,
               didMove |-> FALSE, didSed |-> FALSE, didUpgrade |-> FALSE,
               upgradeFrom |-> NoDir,
               hadDb |-> IsDatabase(fs.db) \/ IsDatabase(fs.data)]

\* the hook is run (snapd runs it on every refresh)
StartHook ==
    /\ hpc = "idle"
    /\ hist.runs < MaxRuns
    /\ hpc' = "l6"
    /\ PG_VERSION' = ""
    /\ hist' = [hist EXCEPT !.runs = @ + 1, !.start = fs,
                            !.prevOk = (hist.runs > 0 /\ hookStatus = 0),
                            !.cmdFailed = FALSE, !.started = FALSE, !.migrated = FALSE,
                            !.didMove = FALSE, !.didSed = FALSE, !.didUpgrade = FALSE,
                            !.upgradeFrom = NoDir]
    /\ UNCHANGED <<fs, hookStatus, rvars>>

\* bash -e: the command at the current line fails and the run ends with its status.
\* A failed initdb or pg_upgrade may leave data-10 partly written.
CommandFails ==
    /\ hpc \in CommandPcs
    /\ \E st \in FailStatuses : hookStatus' = st
    /\ \E partial \in BOOLEAN :
          fs' = IF partial /\ hpc \in {"l95", "l99"} /\ fs.data10.exists
                THEN [fs EXCEPT !.data10 = Dir("", "partial")]
                ELSE fs
    /\ hpc' = "idle"
    /\ hist' = [hist EXCEPT !.cmdFailed = TRUE, !.anyFailed = TRUE]
    /\ UNCHANGED <<PG_VERSION, rvars>>

\* lines 6-44: mkdir -p of the service directories, ownership fix-ups, copy of
\* the sample preseeds; nothing there touches the database layout
Prepare ==
    /\ hpc = "l6"
    /\ hpc' = "l47"
    /\ UNCHANGED <<fs, PG_VERSION, hookStatus, hist, rvars>>

\* line 47: if [ ! -e "$SNAP_COMMON/postgres" ]
TestPostgres ==
    /\ hpc = "l47"
    /\ hpc' = IF ~fs.postgres THEN "l48" ELSE "l59"
    /\ UNCHANGED <<fs, PG_VERSION, hookStatus, hist, rvars>>

\* line 48: mkdir -m 770 "$SNAP_COMMON/postgres" (mkdir fails on an existing path)
MkdirPostgres ==
    /\ hpc = "l48"
    /\ ~fs.postgres
    /\ fs' = [fs EXCEPT !.postgres = TRUE]
    /\ hpc' = "l49"
    /\ UNCHANGED <<PG_VERSION, hookStatus, hist, rvars>>

\* line 49: mkdir "$SNAP_COMMON/postgres/sockets"
MkdirSockets ==
    /\ hpc = "l49"
    /\ fs.postgres /\ ~fs.sockets
    /\ fs' = [fs EXCEPT !.sockets = TRUE]
    /\ hpc' = "l51"
    /\ UNCHANGED <<PG_VERSION, hookStatus, hist, rvars>>

\* line 51: if [ -f "$SNAP_DATA/supervisord/supervisord.conf" ]
TestSupervisordConf ==
    /\ hpc = "l51"
    /\ hpc' = IF fs.supervisord.exists THEN "l52" ELSE "l54"
    /\ UNCHANGED <<fs, PG_VERSION, hookStatus, hist, rvars>>

\* line 52: sed -i ... supervisord.conf
SedSupervisordConf ==
    /\ hpc = "l52"
    /\ fs' = [fs EXCEPT !.supervisord = File(SedSupervisord(fs.supervisord.line))]
    /\ hist' = [hist EXCEPT !.nSedSup = @ + 1, !.didSed = TRUE]
    /\ hpc' = "l54"
    /\ UNCHANGED <<PG_VERSION, hookStatus, rvars>>

\* line 54: if [ -f "$SNAP_DATA/regiond.conf" ]
TestRegiondConf ==
    /\ hpc = "l54"
    /\ hpc' = IF fs.regiond.exists THEN "l55" ELSE "l59"
    /\ UNCHANGED <<fs, PG_VERSION, hookStatus, hist, rvars>>

\* line 55: sed -i ... regiond.conf
SedRegiondConf ==
    /\ hpc = "l55"
    /\ fs' = [fs EXCEPT !.regiond = File(SedRegiond(fs.regiond.line))]
    /\ hist' = [hist EXCEPT !.nSedReg = @ + 1, !.didSed = TRUE]
    /\ hpc' = "l59"
    /\ UNCHANGED <<PG_VERSION, hookStatus, rvars>>

\* mutant: no test for an existing postgres/data before the move
TestDb_NoConflictCheck ==
    /\ hpc = "l59"
    /\ hpc' = (IF fs.db.exists THEN "l64" ELSE "l67")
    /\ UNCHANGED <<fs, PG_VERSION, hookStatus, hist, rvars>>

\* lines 59-63: if [ -d db ]; then if [ -d postgres/data ]; then echo ...; exit 1
TestDb ==
    /\ hpc = "l59"
    /\ IF fs.db.exists /\ fs.data.exists
       THEN hpc' = "idle" /\ hookStatus' = 1
       ELSE hpc' = (IF fs.db.exists THEN "l64" ELSE "l67") /\ UNCHANGED hookStatus
    /\ UNCHANGED <<fs, PG_VERSION, hist, rvars>>

\* line 64: mv "$SNAP_COMMON/db" "$SNAP_COMMON/postgres/data"
\* (mv needs the parent of its target to exist; into an existing directory it
\* puts the source inside it)
MvDbToData ==
    /\ hpc = "l64"
    /\ fs.postgres
    /\ fs' = [fs EXCEPT !.data = IF fs.data.exists THEN fs.data ELSE fs.db, !.db = NoDir]
    /\ hist' = [hist EXCEPT !.nMove = @ + 1, !.didMove = TRUE]
    /\ hpc' = "l67"
    /\ UNCHANGED <<PG_VERSION, hookStatus, rvars>>

\* lines 67-73: chgrp of postgres, chown of postgres/sockets and postgres/data
\* (chgrp fails on a missing path)
FixOwnership ==
    /\ hpc = "l67"
    /\ fs.postgres
    /\ hpc' = "l76"
    /\ UNCHANGED <<fs, PG_VERSION, hookStatus, hist, rvars>>

\* line 76: if [ -d postgres/data ] && [ -e postgres/data/PG_VERSION ]
TestPgData ==
    /\ hpc = "l76"
    /\ hpc' = IF fs.data.exists /\ fs.data.ver # "" THEN "l77" ELSE "l117"
    /\ UNCHANGED <<fs, PG_VERSION, hookStatus, hist, rvars>>

\* mutant: the upgrade block is entered for every version but the unknown ones
TestPgVersion_UpgradesTen ==
    /\ hpc = "l77"
    /\ PG_VERSION' = fs.data.ver
    /\ IF PG_VERSION' \in {"9.5", "10"}
       THEN /\ hpc' = "l84"
            /\ hist' = [hist EXCEPT !.nUpgrade = @ + 1, !.didUpgrade = TRUE,
                                    !.upgradeFrom = fs.data]
            /\ UNCHANGED hookStatus
       ELSE hpc' = "idle" /\ hookStatus' = 1 /\ UNCHANGED hist
    /\ UNCHANGED <<fs, rvars>>

\* lines 77-79 and 110-113: PG_VERSION=$(cat ...); 9.5 is upgraded, 10 is left
\* alone, anything else ends the run with exit 1
TestPgVersion ==
    /\ hpc = "l77"
    /\ PG_VERSION' = fs.data.ver
    /\ IF PG_VERSION' = "9.5"
       THEN /\ hpc' = "l84"
            /\ hist' = [hist EXCEPT !.nUpgrade = @ + 1, !.didUpgrade = TRUE,
                                    !.upgradeFrom = fs.data]
            /\ UNCHANGED hookStatus
       ELSE IF PG_VERSION' # "10"
       THEN hpc' = "idle" /\ hookStatus' = 1 /\ UNCHANGED hist
       ELSE hpc' = "l117" /\ UNCHANGED <<hookStatus, hist>>
    /\ UNCHANGED <<fs, rvars>>

\* line 84: mv postgres/data postgres/data-9.5
\* (mv into an existing directory puts the source inside it: data-9.5 itself keeps
\* what it held)
MvDataTo95 ==
    /\ hpc = "l84"
    /\ fs.data.exists
    /\ fs' = [fs EXCEPT !.data95 = IF fs.data95.exists THEN fs.data95 ELSE fs.data,
                        !.data = NoDir]
    /\ hpc' = "l87"
    /\ UNCHANGED <<PG_VERSION, hookStatus, hist, rvars>>

\* lines 87-89: mkdir "$SNAP_COMMON/pg_upgrade" (fails when it exists); chown; cd
MkdirPgUpgrade ==
    /\ hpc = "l87"
    /\ ~fs.pgUpgrade
    /\ fs' = [fs EXCEPT !.pgUpgrade = TRUE]
    /\ hpc' = "l92"
    /\ UNCHANGED <<PG_VERSION, hookStatus, hist, rvars>>

\* line 92: rm -rf postgres/data-10
RmData10 ==
    /\ hpc = "l92"
    /\ fs' = [fs EXCEPT !.data10 = NoDir]
    /\ hpc' = "l93"
    /\ UNCHANGED <<PG_VERSION, hookStatus, hist, rvars>>

\* lines 93-94: mkdir postgres/data-10; chown
MkdirData10 ==
    /\ hpc = "l93"
    /\ fs.postgres /\ ~fs.data10.exists
    /\ fs' = [fs EXCEPT !.data10 = Dir("", "")]
    /\ hpc' = "l95"
    /\ UNCHANGED <<PG_VERSION, hookStatus, hist, rvars>>

\* lines 95-96: initdb -D postgres/data-10: an empty PostgreSQL 10 cluster
Initdb ==
    /\ hpc = "l95"
    /\ fs.data10.exists
    /\ fs' = [fs EXCEPT !.data10 = Dir("10", "")]
    /\ hpc' = "l99"
    /\ UNCHANGED <<PG_VERSION, hookStatus, hist, rvars>>

\* lines 99-104: pg_upgrade --old-datadir data-9.5 --new-datadir data-10: the new
\* cluster receives the old one's data, the old one is left as it is.
\* pg_upgrade refuses an old cluster that is not 9.5 or a new one that is not 10.
PgUpgrade ==
    /\ hpc = "l99"
    /\ fs.data95.exists /\ fs.data95.ver = "9.5"
    /\ fs.data10.exists /\ fs.data10.ver = "10"
    /\ fs' = [fs EXCEPT !.data10 = Dir("10", fs.data95.content)]
    /\ hpc' = "l107"
    /\ UNCHANGED <<PG_VERSION, hookStatus, hist, rvars>>

\* mutant: the upgrade folder is not removed
RmPgUpgrade_Keep ==
    /\ hpc = "l107"
    /\ hpc' = "l109"
    /\ UNCHANGED <<fs, PG_VERSION, hookStatus, hist, rvars>>

\* lines 107-108: cd "$ORIG_DIR"; rm -rf "$SNAP_COMMON/pg_upgrade"
RmPgUpgrade ==
    /\ hpc = "l107"
    /\ fs' = [fs EXCEPT !.pgUpgrade = FALSE]
    /\ hpc' = "l109"
    /\ UNCHANGED <<PG_VERSION, hookStatus, hist, rvars>>

\* line 109: mv postgres/data-10 postgres/data
MvData10ToData ==
    /\ hpc = "l109"
    /\ fs.data10.exists
    /\ fs' = [fs EXCEPT !.data = IF fs.data.exists THEN fs.data ELSE fs.data10,
                        !.data10 = NoDir]
    /\ hpc' = "l117"
    /\ UNCHANGED <<PG_VERSION, hookStatus, hist, rvars>>

\* line 117: snapctl start "${SNAP_INSTANCE_NAME}.supervisor"
SnapctlStart ==
    /\ hpc = "l117"
    /\ hist' = [hist EXCEPT !.started = TRUE]
    /\ hpc' = "l120"
    /\ UNCHANGED <<fs, PG_VERSION, hookStatus, rvars>>

\* line 120: exec ... migrate --configure: the run ends with migrate's status
ExecMigrate ==
    /\ hpc = "l120"
    /\ \E st \in MigrateStatuses : hookStatus' = st
    /\ hist' = [hist EXCEPT !.migrated = TRUE]
    /\ hpc' = "idle"
    /\ UNCHANGED <<fs, PG_VERSION, rvars>>

HookNext ==
    \/ StartHook
    \/ CommandFails
    \/ Prepare
    \/ TestPostgres
    \/ MkdirPostgres
    \/ MkdirSockets
    \/ TestSupervisordConf
    \/ SedSupervisordConf
    \/ TestRegiondConf
    \/ SedRegiondConf
    \/ TestDb
    \/ MvDbToData
    \/ FixOwnership
    \/ TestPgData
    \/ TestPgVersion
    \/ MvDataTo95
    \/ MkdirPgUpgrade
    \/ RmData10
    \/ MkdirData10
    \/ Initdb
    \/ PgUpgrade
    \/ RmPgUpgrade
    \/ MvData10ToData
    \/ SnapctlStart
    \/ ExecMigrate

(***************************************************************************)
(* Specifications: each program is checked on its own; the other one's     *)
(* variables stay at their initial values.                                 *)
(***************************************************************************)
HookIdle ==
    /\ hpc = "idle"
    /\ fs = [db |-> NoDir, postgres |-> FALSE, sockets |-> FALSE, data |-> NoDir,
             data95 |-> NoDir, data10 |-> NoDir, pgUpgrade |-> FALSE,
             supervisord |-> NoFile, regiond |-> NoFile]
    /\ PG_VERSION = ""
    /\ hookStatus = 0
    /\ hist = [runs |-> MaxRuns]

ReporterStart == ReporterInit /\ HookIdle

ReporterSpec == ReporterStart /\ [][ReporterNext]_vars

\* main() is a sequential program: a step that can be taken is taken
ReporterLive == ReporterSpec /\ WF_vars(ReporterNext)

HookStart == HookInit /\ ReporterInit

HookSpec == HookStart /\ [][HookNext]_vars

(***************************************************************************)
(* A JSON reader, used to state what a consumer of the output sees.        *)
(* Results are [ok, v, i]: i is the index after what was read.             *)
(***************************************************************************)
IsWs(c) == c \in {" ", "\t", "\n", "\r"}
IsDigit(c) == c \in {"0", "1", "2", "3", "4", "5", "6", "7", "8", "9"}
DigitVal(c) == CHOOSE d \in 0..9 : DigitChars[d + 1] = c
ParseFail == [ok |-> FALSE, v |-> JNull, i |-> 0]
Parsed(v, i) == [ok |-> TRUE, v |-> v, i |-> i]
HasAt(s, i, word) ==
    /\ i + Len(word) - 1 <= Len(s)
    /\ SubSeq(s, i, i + Len(word) - 1) = word

RECURSIVE SkipWs(_, _)
SkipWs(s, i) == IF i <= Len(s) /\ IsWs(s[i]) THEN SkipWs(s, i + 1) ELSE i

RECURSIVE ParseNumber(_, _, _)
ParseNumber(s, i, n) ==
    IF i <= Len(s) /\ IsDigit(s[i]) THEN ParseNumber(s, i + 1, 10 * n + DigitVal(s[i]))
    ELSE Parsed(JNum(n), i)

RECURSIVE ParseString(_, _, _)
\* from the index after the opening quote
ParseString(s, i, acc) ==
    IF i > Len(s) THEN ParseFail
    ELSE IF s[i] = "\"" THEN Parsed(JStr(acc), i + 1)
    ELSE IF s[i] # "\\" THEN ParseString(s, i + 1, Append(acc, s[i]))
    ELSE IF i + 1 > Len(s) THEN ParseFail
    ELSE LET e == s[i + 1]
         IN CASE e \in {"\"", "\\", "/"} -> ParseString(s, i + 2, Append(acc, e))
              [] e = "n" -> ParseString(s, i + 2, Append(acc, "\n"))
              [] e = "t" -> ParseString(s, i + 2, Append(acc, "\t"))
              [] e = "u" /\ HasAt(s, i + 2, <<"0", "0", "3", "c">>) ->
                    ParseString(s, i + 6, Append(acc, "<"))
              [] e = "u" /\ HasAt(s, i + 2, <<"0", "0", "3", "e">>) ->
                    ParseString(s, i + 6, Append(acc, ">"))
              [] e = "u" /\ HasAt(s, i + 2, <<"0", "0", "2", "6">>) ->
                    ParseString(s, i + 6, Append(acc, "&"))
              [] OTHER -> ParseFail

RECURSIVE ParseValue(_, _)
RECURSIVE ParseElems(_, _, _)
RECURSIVE ParseMembers(_, _, _, _)
\* the elements of an array, from the index of the next element
ParseElems(s, i, acc) ==
    LET r == ParseValue(s, i)
        j == SkipWs(s, r.i)
    IN IF ~r.ok \/ j > Len(s) THEN ParseFail
       ELSE IF s[j] = "," THEN ParseElems(s, j + 1, Append(acc, r.v))
       ELSE IF s[j] = "]" THEN Parsed(JArr(Append(acc, r.v)), j + 1)
       ELSE ParseFail

\* the members of an object, from the index of the next key
ParseMembers(s, i, keys, kids) ==
    LET k0 == SkipWs(s, i)
        k == IF k0 <= Len(s) /\ s[k0] = "\"" THEN ParseString(s, k0 + 1, <<>>) ELSE ParseFail
        c == SkipWs(s, k.i)
        r == IF k.ok /\ c <= Len(s) /\ s[c] = ":" THEN ParseValue(s, c + 1) ELSE ParseFail
        j == SkipWs(s, r.i)
    IN IF ~r.ok \/ j > Len(s) THEN ParseFail
       ELSE IF s[j] = ","
            THEN ParseMembers(s, j + 1, Append(keys, k.v.s), Append(kids, r.v))
       ELSE IF s[j] = "}"
            THEN Parsed(JObj(Append(keys, k.v.s), Append(kids, r.v)), j + 1)
       ELSE ParseFail

ParseValue(s, i0) ==
    LET i == SkipWs(s, i0)
    IN IF i > Len(s) THEN ParseFail
       ELSE CASE HasAt(s, i, <<"n", "u", "l", "l">>) -> Parsed(JNull, i + 4)
              [] HasAt(s, i, <<"t", "r", "u", "e">>) -> Parsed(JTrue, i + 4)
              [] HasAt(s, i, <<"f", "a", "l", "s", "e">>) -> Parsed(JFalse, i + 5)
              [] IsDigit(s[i]) -> ParseNumber(s, i, 0)
              [] s[i] = "\"" -> ParseString(s, i + 1, <<>>)
              [] s[i] = "[" ->
                    LET j == SkipWs(s, i + 1)
                    IN IF j <= Len(s) /\ s[j] = "]" THEN Parsed(JArr(<<>>), j + 1)
                       ELSE ParseElems(s, j, <<>>)
              [] s[i] = "{" ->
                    LET j == SkipWs(s, i + 1)
                    IN IF j <= Len(s) /\ s[j] = "}" THEN Parsed(JObj(<<>>, <<>>), j + 1)
                       ELSE ParseMembers(s, j, <<>>, <<>>)
              [] OTHER -> ParseFail

\* a text that is exactly one JSON document, white space around it allowed
ParseJSON(s) ==
    LET r == ParseValue(s, 1)
    IN IF r.ok /\ SkipWs(s, r.i) > Len(s) THEN r ELSE ParseFail

IsPrefix(a, b) == Len(a) <= Len(b) /\ SubSeq(b, 1, Len(a)) = a
Range(q) == {q[k] : k \in 1..Len(q)}

ErrorPrefix == <<"e", "r", "r", "o", "r", ":", " ">>
EnumFailed == enumerated.called /\ enumerated.isErr
MarshalFailed == enumerated.called /\ ~enumerated.isErr /\ "MarshalIndent" \in Range(calls) /\ ~err.isNil
BothSucceeded == enumerated.called /\ ~enumerated.isErr /\ "MarshalIndent" \in Range(calls) /\ err.isNil

(***************************************************************************)
(* Claims about machine-resources.go                                       *)
(***************************************************************************)

\* C1: when GetResources fails with message M, standard output is never anything
\* but (a prefix: nothing yet, then all of) the line "error: M" and a newline, and
\* the process ends with that whole line written and exit status 1.
C1_EnumFailureLine ==
    EnumFailed =>
        /\ stdout \in {<<>>, ErrorPrefix \o enumerated.msg \o <<"\n">>}
        /\ pc = "done" =>
              /\ stdout = ErrorPrefix \o enumerated.msg \o <<"\n">>
              /\ exited /\ exitStatus = 1

C1_Witness ==
    pc = "done" /\ EnumFailed /\ enumerated.msg = <<"n", "o", " ", "c", "p", "u">>

\* C2: when GetResources succeeds and MarshalIndent fails, standard output holds
\* nothing before the error line (no byte of a JSON document), and at the end it is
\* the single line "error: <message>" with exit status 1.
C2_MarshalFailureLine ==
    MarshalFailed =>
        /\ stdout \in {<<>>, ErrorPrefix \o err.msg \o <<"\n">>}
        /\ "\n" \notin Range(err.msg)
        /\ "PrintData" \notin Range(calls)
        /\ pc = "done" =>
              /\ stdout = ErrorPrefix \o err.msg \o <<"\n">>
              /\ exited /\ exitStatus = 1

C2_Witness == pc = "done" /\ MarshalFailed /\ enumerated.val.t = "obj"

\* every line break of the text is followed by tabs only and then by a character
\* that is not white space
TabIndented(s) ==
    \A k \in 1..(Len(s) - 1) :
        s[k] = "\n" =>
            LET j == CHOOSE x \in (k + 1)..Len(s) :
                         /\ s[x] # "\t"
                         /\ \A y \in (k + 1)..(x - 1) : s[y] = "\t"
            IN /\ \E x \in (k + 1)..Len(s) : s[x] # "\t"
               /\ ~IsWs(s[j])

\* C3: when both steps succeed the process ends with status 0 and standard output
\* is exactly one JSON document, its lines indented with tabs, and one trailing
\* newline; the exit status is 0 if and only if both steps succeeded.
C3_SuccessOutput ==
    pc = "done" =>
        /\ exited
        /\ exitStatus = 0 <=> BothSucceeded
        /\ BothSucceeded =>
              /\ Len(stdout) >= 2
              /\ stdout[Len(stdout)] = "\n"
              /\ ~IsWs(stdout[Len(stdout) - 1])
              /\ ~IsWs(stdout[1])
              /\ ParseJSON(stdout).ok
              /\ TabIndented(SubSeq(stdout, 1, Len(stdout) - 1))
              /\ (enumerated.val.t = "obj" /\ enumerated.val.kids # <<>>) =>
                    HasAt(stdout, 1, <<"{", "\n", "\t", "\"">>)

C3_Witness ==
    /\ pc = "done" /\ BothSucceeded
    /\ enumerated.val.t = "obj"
    /\ enumerated.val.kids[1].t = "arr" /\ Len(enumerated.val.kids[1].kids) = 2

C5_NoStderr == stderr = <<>>

C5_Witness == pc = "done" /\ (EnumFailed \/ MarshalFailed) /\ stdout # <<>> /\ stderr = <<>>

\* the calls a run of main() makes, start to end
EnumFailRun == <<"GetResources", "PrintError", "Exit">>
MarshalFailRun == <<"GetResources", "MarshalIndent", "PrintError", "Exit">>
SuccessRun == <<"GetResources", "MarshalIndent", "PrintData", "Return">>

C6_Order ==
    LET run == IF EnumFailed THEN EnumFailRun
               ELSE IF MarshalFailed THEN MarshalFailRun
               ELSE SuccessRun
    IN /\ IsPrefix(calls, run)
       /\ pc = "done" <=> calls = run
       /\ pc = "done" <=> exited

\* C6: every run ends, having made its calls in the order enumerate, serialize,
\* print, each at most once: a failed step is followed only by the error line and
\* the exit, never by serialization, the JSON print or a second attempt.
C6_OrderedTermination == [](C6_Order) /\ <>(pc = "done")

C6_Witness == pc = "done" /\ calls = MarshalFailRun

(***************************************************************************)
(* Claims about the post-refresh hook                                      *)
(***************************************************************************)

\* C7: over runs none of which is cut short by a failing command, the move of db
\* to postgres/data, each sed rewrite and the 9.5 to 10 upgrade happen at most
\* once; a run that follows a run that ended with status 0 does none of them and
\* leaves the filesystem as it found it.
C7_OneTimeMigration ==
    ~hist.anyFailed =>
        /\ hist.nMove <= 1
        /\ hist.nSedSup <= 1
        /\ hist.nSedReg <= 1
        /\ hist.nUpgrade <= 1
        /\ hist.prevOk =>
              /\ ~hist.didMove /\ ~hist.didSed /\ ~hist.didUpgrade
              /\ fs = hist.start

C7_Witness ==
    /\ hpc = "idle" /\ ~hist.anyFailed
    /\ hist.runs >= 2 /\ hist.prevOk /\ hist.migrated
    /\ hist.nMove = 1 /\ hist.nSedSup = 1 /\ hist.nSedReg = 1 /\ hist.nUpgrade = 1

\* C8: when a run found postgres/data at 9.5 and every command of the upgrade
\* block succeeded, then where the services are started postgres/data-9.5 is the
\* directory the run found, postgres/data is a PostgreSQL 10 cluster with that
\* directory's data, and postgres/data-10 and pg_upgrade are gone.
C8_UpgradeResult ==
    (hpc \in {"l117", "l120"} /\ hist.didUpgrade) =>
        /\ hist.upgradeFrom.exists /\ hist.upgradeFrom.ver = "9.5"
        /\ fs.data95 = hist.upgradeFrom
        /\ fs.data = Dir("10", hist.upgradeFrom.content)
        /\ ~fs.data10.exists
        /\ ~fs.pgUpgrade

C8_Witness ==
    hpc = "l117" /\ hist.didUpgrade /\ hist.didMove /\ fs.data = Dir("10", "A")

\* what the hook calls an inconsistent state, in the filesystem s a run starts from
Inconsistent(s) ==
    \/ s.db.exists /\ s.data.exists
    \/ s.data.exists /\ s.data.ver \notin {"", "9.5", "10"}

\* C9: a run that starts with both db and postgres/data present, or with a
\* postgres/data whose PG_VERSION is neither 9.5 nor 10, never gets to snapctl
\* start or to migrate, leaves db and postgres/data where and as they were, and,
\* unless a command failed first, ends with exit status 1.
C9_RefusesInconsistent ==
    (hist.runs > 0 /\ Inconsistent(hist.start)) =>
        /\ hpc \notin {"l117", "l120"}
        /\ ~hist.started /\ ~hist.migrated
        /\ fs.db = hist.start.db
        /\ fs.data = hist.start.data
        /\ (hpc = "idle" /\ ~hist.cmdFailed) => hookStatus = 1

C9_Witness ==
    /\ hpc = "idle" /\ hist.runs > 0 /\ ~hist.cmdFailed
    /\ ~hist.start.db.exists /\ hist.start.data.ver = "9.6"

\* C10: on a host that had a database before the first run, a run that gets to
\* snapctl start finds postgres/data there, at PostgreSQL 10, also when an earlier
\* run was cut short by a failing command.
C10_StartsWithDatabase ==
    (hpc = "l117" /\ hist.hadDb) => (fs.data.exists /\ fs.data.ver = "10")

====
